---- MODULE Spec2Model ----
(***************************************************************************)
(* GnssMonitor (src/src/utils/gnss_client.py) polled by                    *)
(* BaseStationApp.update_gnss_status (src/src/main.py).                    *)
(*                                                                         *)
(* The monitor owns a TCP socket, an accumulation buffer and a status      *)
(* snapshot.  update_status connects if needed, awaits one sock_recv,      *)
(* appends the bytes to the buffer and drains it with pyrtcm's             *)
(* RTCMReader.read(), called on a fresh BytesIO copy of the buffer in      *)
(* every iteration of the loop.                                            *)
(*                                                                         *)
(* Bytes are naturals 0..255 and frames are real RTCM3 frames: 0xD3, a     *)
(* 10-bit payload length in the next two bytes, the payload, and a         *)
(* CRC-24Q over header and payload.  Numbers that do not fit TLC's 32-bit  *)
(* integers are pairs <<whole, frac>> with value whole + frac / 10^digits  *)
(* and 0 <= frac < 10^digits.                                              *)
(***************************************************************************)
EXTENDS Integers, Sequences, FiniteSets, TLC

VARIABLES
  socket,    \* self._socket: "None" or "open"
  buffer,    \* self._buffer: sequence of bytes
  status,    \* self.status: BaseStationStatus
  pc,        \* where the polling task is: "idle" (asleep between two calls of
             \* update_status), "recv" (in sock_recv), "drain" (in the while loop),
             \* "cancelled", "hung" (in sock_recv on a socket that was closed)
  result,    \* what the last call of update_status returned
  rx,        \* bytes the peer has sent that sock_recv has not yet delivered
  link,      \* the TCP connection as the peer left it: "none", "open", "eof", "error"
  ev,        \* the step taken last
  cycle,     \* summary of the current (or last) call of update_status
  sent,      \* number of chunks the peer has sent so far
  resets,    \* number of times the peer has reset the connection
  failures,  \* consecutive failed connect attempts
  faults,    \* number of decode failures so far
  last1005,  \* payload of the position message decoded last, <<>> if none was
  orphans,   \* sockets the monitor opened, no longer refers to and never closed
  stream,    \* every byte sock_recv has returned so far, in order
  handed,    \* where in stream each 1005 message began that reached lines 93-97
  reading    \* the socket the call in sock_recv, or the call cancelled there,
             \* holds: none, self._socket, or one self._socket no longer is

vars ==
  <<socket, buffer, status, pc, result, rx, link, ev, cycle, sent, resets,
    failures, faults, last1005, orphans,
    stream, handed, reading>>

----------------------------------------------------------------------------
(* Bounds of the model. *)

\* chunks the peer sends in one behaviour
MaxSends == 2
\* consecutive connect failures that are counted
MaxFailures == 2
\* decode failures that are counted
MaxFaults == 1
\* connection resets by the peer in one behaviour
MaxResets == 1
\* unclosed sockets without a reference that are counted
MaxOrphans == 2

----------------------------------------------------------------------------
(* Byte sequences. *)

Min(a, b) == IF a < b THEN a ELSE b

\* Python s[n:]
SliceFrom(s, n) == IF n >= Len(s) THEN <<>> ELSE SubSeq(s, n + 1, Len(s))

\* Python s[:n]
SliceTo(s, n) == SubSeq(s, 1, Min(n, Len(s)))

IsPrefix(p, s) == Len(p) <= Len(s) /\ SubSeq(s, 1, Len(p)) = p

\* exclusive or of bit w (a power of two) of a and b
XorBit(a, b, w) == ((((a \div w) % 2) + ((b \div w) % 2)) % 2) * w

\* exclusive or of two 4-bit numbers, tabulated
Xor4 ==
  [a \in 0..15 |-> [b \in 0..15 |->
     XorBit(a, b, 1) + XorBit(a, b, 2) + XorBit(a, b, 4) + XorBit(a, b, 8)]]

\* exclusive or of two bytes
Xor8(a, b) == 16 * Xor4[a \div 16][b \div 16] + Xor4[a % 16][b % 16]

\* exclusive or of two 24-bit numbers
Xor24(a, b) ==
  Xor8(a % 256, b % 256)
  + 256 * Xor8((a \div 256) % 256, (b \div 256) % 256)
  + 65536 * Xor8(a \div 65536, b \div 65536)

----------------------------------------------------------------------------
(* pyrtcm, as RTCMReader(stream).read() is used at gnss_client.py:84-89.   *)

PREAMBLE == 211

CRC24Q_TABLE ==
  <<
    0, 8801531, 9098509, 825846, 9692897, 1419802, 1651692, 10452759,
    10584377, 2608578, 2839604, 11344079, 3303384, 11807523, 12104405, 4128302,
    12930697, 4391538, 5217156, 13227903, 5679208, 13690003, 14450021, 5910942,
    6606768, 14844747, 15604413, 6837830, 16197969, 7431594, 8256604, 16494759,
    840169, 9084178, 8783076, 18463, 10434312, 1670131, 1434117, 9678590,
    11358416, 2825259, 2590173, 10602790, 4109873, 12122826, 11821884, 3289031,
    13213536, 5231515, 4409965, 12912278, 5929345, 14431610, 13675660, 5693559,
    6823513, 15618722, 14863188, 6588335, 16513208, 8238147, 7417269, 16212302,
    1680338, 10481449, 9664223, 1391140, 9061683, 788936, 36926, 8838341,
    12067563, 4091408, 3340262, 11844381, 2868234, 11372785, 10555655, 2579964,
    14478683, 5939616, 5650518, 13661357, 5180346, 13190977, 12967607, 4428364,
    8219746, 16457881, 16234863, 7468436, 15633027, 6866552, 6578062, 14816117,
    1405499, 9649856, 10463030, 1698765, 8819930, 55329, 803287, 9047340,
    11858690, 3325945, 4072975, 12086004, 2561507, 10574104, 11387118, 2853909,
    13647026, 5664841, 5958079, 14460228, 4446803, 12949160, 13176670, 5194661,
    7454091, 16249200, 16476294, 8201341, 14834538, 6559633, 6852199, 15647388,
    3360676, 11864927, 12161705, 4185682, 10527045, 2551230, 2782280, 11286707,
    9619101, 1346150, 1577872, 10379115, 73852, 8875143, 9172337, 899466,
    16124205, 7357910, 8182816, 16421083, 6680524, 14918455, 15678145, 6911546,
    5736468, 13747439, 14507289, 5968354, 12873461, 4334094, 5159928, 13170435,
    4167245, 12180150, 11879232, 3346363, 11301036, 2767959, 2532769, 10545498,
    10360692, 1596303, 1360505, 9604738, 913813, 9157998, 8856728, 92259,
    16439492, 8164415, 7343561, 16138546, 6897189, 15692510, 14936872, 6662099,
    5986813, 14488838, 13733104, 5750795, 13156124, 5174247, 4352529, 12855018,
    2810998, 11315341, 10498427, 2522496, 12124823, 4148844, 3397530, 11901793,
    9135439, 862644, 110658, 8912057, 1606574, 10407765, 9590435, 1317464,
    15706879, 6940164, 6651890, 14889737, 8145950, 16384229, 16161043, 7394792,
    5123014, 13133629, 12910283, 4370992, 14535975, 5997020, 5707818, 13718737,
    2504095, 10516836, 11329682, 2796649, 11916158, 3383173, 4130419, 12143240,
    8893606, 129117, 876971, 9121104, 1331783, 9576124, 10389322, 1625009,
    14908182, 6633453, 6925851, 15721184, 7380471, 16175372, 16402682, 8127489,
    4389423, 12891860, 13119266, 5137369, 13704398, 5722165, 6015427, 14517560
  >>

\* (In the operators below a value that is used several times is bound as
\* the element of a singleton set, x \in {e}, so that it is computed once.)

\* CRC-24Q of the first n bytes of s, table driven, 24 bits wide.  A zero
\* byte leaves a zero checksum at zero.
RECURSIVE crc24q_of(_, _)
crc24q_of(s, n) ==
  IF n = 0 THEN 0
  ELSE CHOOSE next \in
         { IF crc = 0 /\ byte = 0 THEN 0
           ELSE CHOOSE x \in
                  { Xor24((crc % 65536) * 256, t) :
                      t \in {CRC24Q_TABLE[Xor8(crc \div 65536, byte) + 1]} } : TRUE :
           crc \in {crc24q_of(s, n - 1)}, byte \in {s[n]} } : TRUE

\* 0 for a frame that carries its own checksum
calc_crc24q(s) == crc24q_of(s, Len(s))

\* read() returned (None, None)
NoMessage == [found |-> FALSE, raw |-> <<>>, payload |-> <<>>, at |-> 0]

\* RTCMReader.read() on a stream positioned at byte i of s, with the reader's
\* defaults (validate the checksum, log errors and carry on): bytes that are
\* not the preamble are skipped; at a preamble the header, the payload and
\* the checksum are read, and running out of stream at any of them (a read
\* that returns no byte, which a payload length of 0 also gives) ends the
\* read with (None, None); a frame whose checksum fails is logged and the
\* scan goes on behind it; the first frame whose checksum holds is returned
\* as (raw_data, parsed_data).  The bytes skipped before that frame are not
\* part of raw_data; "at" is where in s the frame began.
RECURSIVE read_from(_, _)
read_from(s, i) ==
  IF \A j \in i..Len(s) : s[j] # PREAMBLE THEN NoMessage
  ELSE CHOOSE r \in
    { IF Len(s) - p < 2 THEN NoMessage
      ELSE CHOOSE r1 \in
        { IF size = 0 \/ p + 2 + size + 3 > Len(s) THEN NoMessage
          ELSE CHOOSE r2 \in
            { IF calc_crc24q(raw) # 0 THEN read_from(s, p + 2 + size + 3 + 1)
              ELSE [found |-> TRUE, raw |-> raw,
                    payload |-> SubSeq(raw, 4, 3 + size), at |-> p] :
              raw \in {SubSeq(s, p, p + 2 + size + 3)} } : TRUE :
          size \in {(s[p + 1] % 4) * 256 + s[p + 2]} } : TRUE :
      p \in {CHOOSE j \in i..Len(s) :
                /\ s[j] = PREAMBLE
                /\ \A k \in i..(j - 1) : s[k] # PREAMBLE} } : TRUE

\* rtr = RTCMReader(BytesIO(self._buffer)); rtr.read()
rtr_read(s) == read_from(s, 1)

\* parsed_data.identity: the 12-bit message number DF002, as a string
identity(payload) ==
  IF Len(payload) < 2 THEN "0"
  ELSE ToString(payload[1] * 16 + (payload[2] \div 16))

\* bit k (0 = first) of a payload
Bit(payload, k) == (payload[(k \div 8) + 1] \div (2 ^ (7 - (k % 8)))) % 2

\* the unsigned value of the 4 bits from bit k
Bits4(payload, k) ==
  8 * Bit(payload, k) + 4 * Bit(payload, k + 1) + 2 * Bit(payload, k + 2)
  + Bit(payload, k + 3)

\* the unsigned value of n bits from bit k, divided by 10000:
\* <<quotient, remainder>>, computed four bits at a time (the first n % 4
\* one by one) to stay within 32 bits
RECURSIVE DivMod10000(_, _, _)
DivMod10000(payload, k, n) ==
  IF n = 0 THEN <<0, 0>>
  ELSE IF n % 4 # 0
  THEN CHOOSE next \in
         { CHOOSE x \in
             { <<2 * qr[1] + (t \div 10000), t % 10000>> :
                 t \in {2 * qr[2] + Bit(payload, k + n - 1)} } : TRUE :
           qr \in {DivMod10000(payload, k, n - 1)} } : TRUE
  ELSE CHOOSE next \in
         { CHOOSE x \in
             { <<16 * qr[1] + (t \div 10000), t % 10000>> :
                 t \in {16 * qr[2] + Bits4(payload, k + n - 4)} } : TRUE :
           qr \in {DivMod10000(payload, k, n - 4)} } : TRUE

\* a 38-bit two's complement field at bit k, scaled by 0.0001 (DF025, DF026,
\* DF027 are in units of 0.0001 m): <<metres, ten-thousandths>>
Scaled38(payload, k) ==
  CHOOSE v \in
    { IF Bit(payload, k) = 0 THEN u
      ELSE IF u[2] >= 6944 THEN <<u[1] - 27487790, u[2] - 6944>>
      ELSE <<u[1] - 27487790 - 1, u[2] - 6944 + 10000>> :
      u \in {DivMod10000(payload, k, 38)} } : TRUE

\* bits of a 1005 message up to the end of DF027
BITS_1005 == 152

\* parsed_data.DF025, .DF026, .DF027 of a 1005 message
DF025(payload) == Scaled38(payload, 34)
DF026(payload) == Scaled38(payload, 74)
DF027(payload) == Scaled38(payload, 114)

\* ecef_raises for a platform whose atan2 rejects (0, 0)
ecef_raises_on_axis(x, y, z) == x = <<0, 0>> /\ y = <<0, 0>>

\* ecef_to_geodetic raises.  It does not: math.sqrt gets a sum of squares,
\* math.atan2 is defined for every pair of floats, (0.0, 0.0) included, and
\* the divisors of lines 39-40 are never 0.0 (1 - e2 * sin^2 >= 1 - e2, and
\* the cosine of a float is not 0.0)
ecef_raises(x, y, z) == FALSE

\* lines 93-97 raise: the payload ends before DF025, DF026, DF027, or the
\* conversion raises
decode_raises(payload) ==
  IF Len(payload) * 8 < BITS_1005 THEN TRUE
  ELSE ecef_raises(DF025(payload), DF026(payload), DF027(payload))

----------------------------------------------------------------------------
(* The stream the peer can send. *)

\* 1005, ECEF (-2700000.1234, -4300000.5678, 3850000.4321)
MsgA == <<211, 0, 19, 62, 208, 0, 2, 57, 182, 172, 173, 46, 53, 252, 255, 251, 210, 8, 246, 199, 113, 225, 201, 15, 18>>

\* 1005, ECEF (0, 0, 6356752.3142): on the polar axis
MsgB == <<211, 0, 19, 62, 208, 0, 2, 0, 0, 0, 0, 0, 0, 0, 0, 0, 0, 14, 204, 235, 109, 70, 16, 63, 148>>

\* 1006: a valid message that is not a 1005
MsgOther == <<211, 0, 21, 62, 224, 0, 2, 57, 182, 172, 173, 46, 53, 252, 255, 251, 210, 8, 246, 199, 113, 225, 5, 220, 200, 159, 66>>

\* 1005 with a payload of two bytes: the message number and nothing else
MsgBad == <<211, 0, 2, 62, 208, 164, 224, 0>>

\* a byte that is not the preamble
Garbage == <<0>>

\* as many bytes as a 1005 message has, none of them the preamble
Noise == [i \in 1..Len(MsgA) |-> 0]

\* where a message is cut when it arrives in two reads
SplitAt == 10

Chunks ==
  { MsgA, MsgB, MsgOther, MsgBad, Garbage, Noise,
    SliceTo(MsgA, SplitAt), SliceFrom(MsgA, SplitAt) }

----------------------------------------------------------------------------
(* gnss_client.py: BaseStationStatus, ecef_to_geodetic. *)

BaseStationStatus ==
  [ latitude |-> <<0, 0>>, longitude |-> <<0, 0>>, altitude |-> <<0, 0>>,
    accuracy_mm |-> 0, is_fixed_mode |-> FALSE,
    is_survey_in_active |-> FALSE, survey_in_duration |-> 0 ]

\* A double is written <<whole, first 8 decimals, next 4 decimals, rest>>:
\* v[1] + v[2] / 10^8 + v[3] / 10^12 is the largest number of 12 decimals
\* that is not above the double, and v[4] is 0 when the double is that
\* number exactly, 1 when it is above it.

\* ecef_to_geodetic on the positions the peer can send, as the function
\* computes them in double precision: degrees, degrees, metres.
ecef_to_geodetic(x, y, z) ==
  CASE <<x, y, z>> = << <<-2700001, 8766>>, <<-4300001, 4322>>, <<3850000, 4321>> >> ->
         [ lat |-> <<37, 35706078, 3826, 1>>,
           lon |-> <<-123, 87500378, 7524, 1>>,
           height |-> <<1704, 55259212, 6652, 1>> ]
    [] <<x, y, z>> = << <<0, 0>>, <<0, 0>>, <<6356752, 3142>> >> ->
         [ lat |-> <<90, 0, 0, 0>>,
           lon |-> <<0, 0, 0, 0>>,
           height |-> <<-6399594, 37424150, 6680, 1>> ]

\* round(v, 8) as <<whole, 8 decimals>>: to the nearest number of 8
\* decimals, and a double that is exactly halfway between two of them to the
\* one whose last digit is even
round8(v) ==
  IF \/ v[3] < 5000
     \/ v[3] = 5000 /\ v[4] = 0 /\ v[2] % 2 = 0
  THEN <<v[1], v[2]>>
  ELSE IF v[2] + 1 = 100000000 THEN <<v[1] + 1, 0>>
  ELSE <<v[1], v[2] + 1>>

\* round(v, 2) as <<whole, 2 decimals>>, in the same way
round2(v) ==
  LET d == v[2] \div 1000000
      r == v[2] % 1000000
  IN  IF \/ r < 500000
         \/ r = 500000 /\ v[3] = 0 /\ v[4] = 0 /\ d % 2 = 0
      THEN <<v[1], d>>
      ELSE IF d + 1 = 100 THEN <<v[1] + 1, 0>>
      ELSE <<v[1], d + 1>>

\* process_1005 that leaves the altitude for later
process_1005_keeps_altitude(st, payload) ==
  CHOOSE new \in
    { [st EXCEPT !.latitude = round8(g.lat),
                 !.longitude = round8(g.lon)] :
      g \in {ecef_to_geodetic(DF025(payload), DF026(payload), DF027(payload))} } : TRUE

\* process_1005 that also records the station as being in fixed mode
process_1005_sets_fixed_mode(st, payload) ==
  CHOOSE new \in
    { [st EXCEPT !.latitude = round8(g.lat),
                 !.longitude = round8(g.lon),
                 !.altitude = round2(g.height),
                 !.is_fixed_mode = TRUE] :
      g \in {ecef_to_geodetic(DF025(payload), DF026(payload), DF027(payload))} } : TRUE

\* lines 93-100: the snapshot after a 1005 message is processed
process_1005(st, payload) ==
  CHOOSE new \in
    { [st EXCEPT !.latitude = round8(g.lat),
                 !.longitude = round8(g.lon),
                 !.altitude = round2(g.height)] :
      g \in {ecef_to_geodetic(DF025(payload), DF026(payload), DF027(payload))} } : TRUE

----------------------------------------------------------------------------
(* gnss_client.py: GnssMonitor. *)

RECV_SIZE == 1024

\* need_connect with a retry limit: gives up once MaxFailures attempts failed
need_connect_limited == socket = "None" /\ failures < MaxFailures

\* line 69, 71: if not self._socket
need_connect == socket = "None"

\* connect(): self._socket after the attempt
connect(ok) == IF ok THEN "open" ELSE "None"

\* consume that cuts the message out of the buffer where the reader found it
\* and keeps the bytes before it
consume_cuts_message_out(buf, raw) ==
  LET i == CHOOSE j \in 1..Len(buf) :
             /\ SubSeq(buf, j, j + Len(raw) - 1) = raw
             /\ \A k \in 1..(j - 1) : SubSeq(buf, k, k + Len(raw) - 1) # raw
  IN  SubSeq(buf, 1, i - 1) \o SliceFrom(buf, i - 1 + Len(raw))

\* line 103: self._buffer = self._buffer[len(raw_data):]
consume(buf, raw) == SliceFrom(buf, Len(raw))

\* on_parse_error that retries on the same bytes
on_parse_error_keeps_buffer(buf) == buf

\* lines 107-110: except Exception: self._buffer = self._buffer[1:]
on_parse_error(buf) == SliceFrom(buf, 1)

\* lines 114-117: self._socket is overwritten without close().  The socket
\* the failed read was on stays open, held by the exception the suspended
\* call was resumed with, until the runtime collects it; it is closed at once
\* when sock_recv failed without suspending, and was closed already when
\* cleanup() came before the failure
held_by_error(rd, c, n) ==
  IF rd.on = "old" \/ (rd.on = "self" /\ c.waits) THEN Min(n + 1, MaxOrphans) ELSE n

\* on_read_error without line 116: the dead socket is kept
on_read_error_keeps_socket == [socket |-> socket, result |-> "None"]

\* on_read_error that re-raises to the caller instead of returning None
on_read_error_reraises == [socket |-> "None", result |-> "raised"]

\* lines 114-117: except Exception: self._socket = None; return None
on_read_error == [socket |-> "None", result |-> "None"]

\* return_after_read that hands out the snapshot only when the cycle decoded
\* a position
return_only_new_position(c) == IF c.decoded > 0 THEN "status" ELSE "None"

\* line 112: return self.status, whatever the cycle read or decoded
return_after_read(c) == "status"

\* waits: sock_recv found nothing to return at once and the call is suspended
\* in it
NewCycle == [read |-> "none", attempts |-> 0, decoded |-> 0, waits |-> FALSE]

\* no call is in sock_recv
NoRead == [on |-> "none", link |-> "none", rx |-> <<>>]

\* the call in sock_recv reads self._socket
SelfRead == [on |-> "self", link |-> "none", rx |-> <<>>]

\* the call in sock_recv reads a socket that connect() has replaced in
\* self._socket meanwhile: the connection of that socket
OldRead(l, r) == [on |-> "old", link |-> l, rx |-> r]

\* the call in sock_recv reads a socket that cleanup() has closed while the
\* loop had the socket's event to deliver: the read fails on the closed socket
ClosedRead == [on |-> "closed", link |-> "error", rx |-> <<>>]

Init ==
  /\ socket = "None"
  /\ buffer = <<>>
  /\ status = BaseStationStatus
  /\ pc = "idle"
  /\ result = "unset"
  /\ rx = <<>>
  /\ link = "none"
  /\ ev = "init"
  /\ cycle = NewCycle
  /\ sent = 0
  /\ resets = 0
  /\ failures = 0
  /\ faults = 0
  /\ last1005 = <<>>
  /\ orphans = 0
  /\ stream = <<>>
  /\ handed = <<>>
  /\ reading = NoRead

\* update_gnss_status calls update_status again only while the task is alive
CanPoll == pc = "idle" /\ result # "raised"

\* the call is suspended in sock_recv, or was and is due to be resumed;
\* other tasks run only then and while the polling task sleeps
Waiting == pc = "recv" /\ cycle.waits

\* the connection sock_recv reads
ReadLink == IF reading.on \in {"old", "closed"} THEN reading.link ELSE link
ReadRx == IF reading.on \in {"old", "closed"} THEN reading.rx ELSE rx

\* update_status with a socket: line 69 is false, on to sock_recv, which
\* suspends the call when the connection has nothing for it.  (What the peer
\* does between line 69 and the read it has as well done before the call.)
update_status_connected ==
  /\ CanPoll
  /\ ~need_connect
  /\ pc' = "recv"
  /\ result' = "pending"
  /\ cycle' = [NewCycle EXCEPT !.waits = (rx = <<>> /\ link = "open")]
  /\ reading' = SelfRead
  /\ ev' = "poll"
  /\ UNCHANGED <<socket, buffer, status, rx, link, sent, resets, failures, faults, last1005, orphans, stream, handed>>

\* connect_ok that starts the new connection with a fresh snapshot
connect_ok_resets_status ==
  /\ CanPoll
  /\ need_connect
  /\ socket' = connect(TRUE)
  /\ link' = "open"
  /\ rx' = <<>>
  /\ failures' = 0
  /\ status' = BaseStationStatus
  /\ pc' = IF socket' = "None" THEN "idle" ELSE "recv"
  /\ result' = IF socket' = "None" THEN "None" ELSE "pending"
  /\ cycle' = [NewCycle EXCEPT !.attempts = 1]
  /\ reading' = SelfRead
  /\ ev' = "connect_ok"
  /\ UNCHANGED <<buffer, sent, resets, faults, last1005, orphans, stream, handed>>

\* update_status without a socket, connect() succeeds: lines 69-71, 59-62.
\* The call goes on to sock_recv, line 76; the peer can act on the new
\* connection before sock_recv first tries to read
connect_ok ==
  /\ CanPoll
  /\ need_connect
  /\ socket' = connect(TRUE)
  /\ link' = "open"
  /\ rx' = <<>>
  /\ failures' = 0
  /\ pc' = IF socket' = "None" THEN "idle" ELSE "recv"
  /\ result' = IF socket' = "None" THEN "None" ELSE "pending"
  /\ cycle' = [NewCycle EXCEPT !.attempts = 1]
  /\ reading' = SelfRead
  /\ ev' = "connect_ok"
  /\ UNCHANGED <<buffer, status, sent, resets, faults, last1005, orphans, stream, handed>>

\* update_status without a socket, connect() fails: lines 69-72, 63-65
connect_failed ==
  /\ CanPoll
  /\ need_connect
  /\ socket' = connect(FALSE)
  /\ failures' = Min(failures + 1, MaxFailures)
  /\ pc' = IF socket' = "None" THEN "idle" ELSE "recv"
  /\ result' = IF socket' = "None" THEN "None" ELSE "pending"
  /\ cycle' = [NewCycle EXCEPT !.attempts = 1]
  /\ reading' = NoRead
  /\ ev' = "connect_failed"
  /\ UNCHANGED <<buffer, status, rx, link, sent, resets, faults, last1005, orphans, stream, handed>>

\* the call has connected and sock_recv has not yet tried to read
JustConnected ==
  pc = "recv" /\ cycle.attempts = 1 /\ ~cycle.waits /\ reading.on = "self"

\* sock_recv finds nothing to read on the new connection and no end of it:
\* the call is suspended, line 76
recv_suspend ==
  /\ JustConnected
  /\ link = "open"
  /\ rx = <<>>
  /\ cycle' = [cycle EXCEPT !.waits = TRUE]
  /\ ev' = "recv_suspend"
  /\ UNCHANGED <<socket, buffer, status, pc, result, rx, link, sent, resets, failures, faults, last1005, orphans, stream, handed, reading>>

\* sock_recv returns bytes: lines 76-79
recv_data ==
  /\ pc = "recv"
  /\ ReadLink \in {"open", "eof", "error"}
  /\ ReadRx # <<>>
  /\ LET data == SliceTo(ReadRx, RECV_SIZE)
     IN  /\ buffer' = buffer \o data
         /\ stream' = stream \o data
         /\ rx' = IF reading.on = "old" THEN rx ELSE SliceFrom(rx, Len(data))
  /\ reading' = NoRead
  /\ pc' = "drain"
  /\ cycle' = [cycle EXCEPT !.read = "data", !.waits = FALSE]
  /\ ev' = "recv_data"
  /\ UNCHANGED <<socket, status, result, link, sent, resets, failures, faults, last1005, orphans, handed>>

\* recv_empty that takes b"" for the end of the connection: teardown, None
recv_empty_tears_down ==
  /\ pc = "recv"
  /\ ReadLink = "eof"
  /\ ReadRx = <<>>
  /\ cycle' = [cycle EXCEPT !.read = "empty", !.waits = FALSE]
  /\ pc' = "idle"
  /\ socket' = "None"
  /\ result' = "None"
  /\ reading' = NoRead
  /\ ev' = "recv_empty"
  /\ UNCHANGED <<buffer, status, rx, link, sent, resets, failures, faults, last1005, orphans, stream, handed>>

\* sock_recv returns b"" (the peer closed): lines 76-77, 112
recv_empty ==
  /\ pc = "recv"
  /\ ReadLink = "eof"
  /\ ReadRx = <<>>
  /\ cycle' = [cycle EXCEPT !.read = "empty", !.waits = FALSE]
  /\ pc' = "idle"
  /\ result' = return_after_read(cycle')
  /\ reading' = NoRead
  /\ ev' = "recv_empty"
  /\ UNCHANGED <<socket, buffer, status, rx, link, sent, resets, failures, faults, last1005, orphans, stream, handed>>

\* recv_error that starts over with an empty buffer when the connection is
\* lost
recv_error_clears_buffer ==
  /\ pc = "recv"
  /\ ReadLink = "error"
  /\ ReadRx = <<>>
  /\ socket' = on_read_error.socket
  /\ result' = on_read_error.result
  /\ link' = "none"
  /\ rx' = <<>>
  /\ pc' = "idle"
  /\ buffer' = <<>>
  /\ orphans' = held_by_error(reading, cycle, orphans)
  /\ reading' = NoRead
  /\ cycle' = [cycle EXCEPT !.read = "error", !.waits = FALSE]
  /\ ev' = "recv_error"
  /\ UNCHANGED <<status, sent, resets, failures, faults, last1005, stream, handed>>

\* sock_recv raises: lines 76, 114-117
recv_error ==
  /\ pc = "recv"
  /\ ReadLink = "error"
  /\ ReadRx = <<>>
  /\ socket' = on_read_error.socket
  /\ result' = on_read_error.result
  /\ link' = "none"
  /\ rx' = <<>>
  /\ pc' = "idle"
  /\ orphans' = held_by_error(reading, cycle, orphans)
  /\ reading' = NoRead
  /\ cycle' = [cycle EXCEPT !.read = "error", !.waits = FALSE]
  /\ ev' = "recv_error"
  /\ UNCHANGED <<buffer, status, sent, resets, failures, faults, last1005, stream, handed>>

\* where in stream byte i of the buffer was read, the buffer being what is
\* left of the stream after the removals of lines 103 and 109
StreamIndex(i) == Len(stream) - Len(buffer) + i

\* line 82 is false: the loop ends, line 112
drain_done ==
  /\ pc = "drain"
  /\ Len(buffer) = 0
  /\ pc' = "idle"
  /\ result' = return_after_read(cycle)
  /\ ev' = "drain_done"
  /\ UNCHANGED <<socket, buffer, status, rx, link, cycle, sent, resets, failures, faults, last1005, orphans, stream, handed, reading>>

\* drain_break that treats (None, None) as a parse error: one byte is
\* dropped and the loop goes on
drain_break_discards ==
  /\ pc = "drain"
  /\ Len(buffer) > 0
  /\ ~rtr_read(buffer).found
  /\ buffer' = SliceFrom(buffer, 1)
  /\ ev' = "drain_break"
  /\ UNCHANGED <<socket, status, pc, result, rx, link, cycle, sent, resets, failures, faults, last1005, orphans, stream, handed, reading>>

\* read() returned (None, None): lines 89-90, 104-106, 112
drain_break ==
  /\ pc = "drain"
  /\ Len(buffer) > 0
  /\ ~rtr_read(buffer).found
  /\ pc' = "idle"
  /\ result' = return_after_read(cycle)
  /\ ev' = "drain_break"
  /\ UNCHANGED <<socket, buffer, status, rx, link, cycle, sent, resets, failures, faults, last1005, orphans, stream, handed, reading>>

\* read() returned a message: lines 89-103
drain_extract ==
  /\ pc = "drain"
  /\ Len(buffer) > 0
  /\ \E r \in {rtr_read(buffer)} :
         /\ r.found
         /\ identity(r.payload) = "1005" => ~decode_raises(r.payload)
         /\ IF identity(r.payload) = "1005"
            THEN /\ status' = process_1005(status, r.payload)
                 /\ cycle' = [cycle EXCEPT !.decoded = @ + 1]
                 /\ last1005' = r.payload
                 /\ handed' = Append(handed, StreamIndex(r.at))
            ELSE UNCHANGED <<status, cycle, last1005, handed>>
         /\ buffer' = consume(buffer, r.raw)
  /\ ev' = "extract"
  /\ UNCHANGED <<socket, pc, result, rx, link, sent, resets, failures, faults, orphans, stream, reading>>

\* read() returned a 1005 message and lines 93-97 raise: lines 107-110
drain_decode_error ==
  /\ pc = "drain"
  /\ Len(buffer) > 0
  /\ \E r \in {rtr_read(buffer)} :
         /\ r.found
         /\ identity(r.payload) = "1005"
         /\ decode_raises(r.payload)
         /\ handed' = Append(handed, StreamIndex(r.at))
  /\ buffer' = on_parse_error(buffer)
  /\ faults' = Min(faults + 1, MaxFaults)
  /\ ev' = "decode_error"
  /\ UNCHANGED <<socket, status, pc, result, rx, link, cycle, sent, resets, failures, last1005, orphans, stream, reading>>

(* The peer.  Lines 77-112 run without awaiting, so what the peer does      *)
(* during a drain is seen by the monitor as done after it.                  *)

PeerCanAct == link = "open" /\ (pc = "idle" \/ Waiting \/ JustConnected)

\* the peer of a connection whose socket connect() has replaced under the
\* suspended read
OldPeerCanAct == reading.on = "old" /\ reading.link = "open" /\ Waiting

peer_send ==
  /\ sent < MaxSends
  /\ \E c \in Chunks :
       \/ PeerCanAct /\ rx' = rx \o c /\ reading' = reading
       \/ OldPeerCanAct /\ reading' = [reading EXCEPT !.rx = @ \o c] /\ rx' = rx
  /\ sent' = sent + 1
  /\ ev' = "peer_send"
  /\ UNCHANGED <<socket, buffer, status, pc, result, link, cycle, resets, failures, faults, last1005, orphans, stream, handed>>

peer_close ==
  /\ \/ PeerCanAct /\ link' = "eof" /\ reading' = reading
     \/ OldPeerCanAct /\ reading' = [reading EXCEPT !.link = "eof"] /\ link' = link
  /\ ev' = "peer_close"
  /\ UNCHANGED <<socket, buffer, status, pc, result, rx, cycle, sent, resets, failures, faults, last1005, orphans, stream, handed>>

\* the bytes received before the reset stay to be read: sock_recv returns
\* them, and the read after them raises
peer_reset ==
  /\ resets < MaxResets
  /\ resets' = resets + 1
  /\ \/ PeerCanAct /\ link' = "error" /\ reading' = reading
     \/ OldPeerCanAct /\ reading' = [reading EXCEPT !.link = "error"] /\ link' = link
  /\ ev' = "peer_reset"
  /\ UNCHANGED <<socket, buffer, status, pc, result, rx, cycle, sent, failures, faults, last1005, orphans, stream, handed>>

(* The application and the runtime. *)

\* main.py:520-521: the application ends and cancels the polling task.  The
\* task is suspended in sock_recv (line 76) or in asyncio.sleep (main.py:545);
\* CancelledError is raised there, is not an Exception, so lines 114-117 do
\* not catch it, and it ends update_gnss_status.  Nothing calls cleanup().
\* The cancelled task keeps what its call held until the task is let go.
cancel ==
  /\ pc = "idle" \/ Waiting \/ pc = "hung"
  /\ pc' = "cancelled"
  /\ ev' = "cancel"
  /\ UNCHANGED <<socket, buffer, status, result, rx, link, cycle, sent, resets, failures, faults, last1005, orphans, stream, handed, reading>>

\* the runtime collects unreferenced sockets, which closes them: some of them
\* at a time, whatever the monitor is doing
finalize ==
  /\ orphans > 0
  /\ \E n \in 0..(orphans - 1) : orphans' = n
  /\ ev' = "finalize"
  /\ UNCHANGED <<socket, buffer, status, pc, result, rx, link, cycle, sent, resets, failures, faults, last1005, stream, handed, reading>>

\* the cancelled task is let go, and with it the socket its call was reading:
\* a socket self._socket no longer is gets closed by that
release ==
  /\ pc = "cancelled"
  /\ reading.on # "none"
  /\ reading' = NoRead
  /\ ev' = "release"
  /\ UNCHANGED <<socket, buffer, status, pc, result, rx, link, cycle, sent, resets, failures, faults, last1005, orphans, stream, handed>>

(* The rest of the monitor's interface, which main.py does not use. *)

\* when another task can call into the monitor: connect() and cleanup() test
\* nothing but self._socket
OthersRun == pc \in {"idle", "cancelled", "hung"} \/ Waiting

\* async with monitor: __aenter__ calls connect(), whatever self._socket is.
\* Line 59 overwrites self._socket: the socket that was there is closed at
\* once, unless the call in sock_recv (or cancelled there) holds it
aenter ==
  /\ OthersRun
  /\ \E ok \in BOOLEAN :
       /\ socket' = connect(ok)
       /\ link' = IF ok THEN "open" ELSE "none"
       /\ failures' = IF ok THEN 0 ELSE Min(failures + 1, MaxFailures)
  /\ rx' = <<>>
  /\ reading' = IF reading.on = "self" THEN OldRead(link, rx) ELSE reading
  /\ ev' = "aenter"
  /\ UNCHANGED <<buffer, status, pc, result, cycle, sent, resets, faults, last1005, orphans, stream, handed>>

\* __aexit__ calls cleanup(): lines 121-123 close the socket if there is one.
\* A call suspended in sock_recv on that socket never returns, unless the
\* loop already has an event of the socket to deliver: then its read fails
aexit ==
  /\ OthersRun
  /\ socket' = "None"
  /\ link' = IF socket = "None" THEN link ELSE "none"
  /\ rx' = IF socket = "None" THEN rx ELSE <<>>
  /\ IF reading.on = "self" /\ pc = "recv"
     THEN \/ pc' = "hung" /\ reading' = NoRead
          \/ (rx # <<>> \/ link # "open") /\ pc' = pc /\ reading' = ClosedRead
     ELSE /\ pc' = pc
          /\ reading' = IF reading.on = "self" THEN NoRead ELSE reading
  /\ ev' = "aexit"
  /\ UNCHANGED <<buffer, status, result, cycle, sent, resets, failures, faults, last1005, orphans, stream, handed>>

update_status ==
  \/ update_status_connected
  \/ connect_ok
  \/ connect_failed
  \/ recv_suspend
  \/ recv_data
  \/ recv_empty
  \/ recv_error
  \/ drain_done
  \/ drain_break
  \/ drain_extract
  \/ drain_decode_error

Next ==
  \/ update_status_connected
  \/ connect_ok
  \/ connect_failed
  \/ recv_suspend
  \/ recv_data
  \/ recv_empty
  \/ recv_error
  \/ drain_done
  \/ drain_break
  \/ drain_extract
  \/ drain_decode_error
  \/ peer_send
  \/ peer_close
  \/ peer_reset
  \/ cancel
  \/ finalize
  \/ release

Spec == Init /\ [][Next]_vars

\* the loop at lines 82-110 runs without awaiting: once in it, the task takes
\* its next step
DrainStep == drain_done \/ drain_break \/ drain_extract \/ drain_decode_error

\* the steps of a monitor whose task keeps running: the task, the peer and
\* the runtime.  A cancellation lands at an await and ends the task.
RunNext ==
  \/ update_status_connected
  \/ connect_ok
  \/ connect_failed
  \/ recv_suspend
  \/ recv_data
  \/ recv_empty
  \/ recv_error
  \/ drain_done
  \/ drain_break
  \/ drain_extract
  \/ drain_decode_error
  \/ peer_send
  \/ peer_close
  \/ peer_reset
  \/ finalize

FairSpec == Init /\ [][RunNext]_vars /\ WF_vars(DrainStep)

\* the monitor used through its whole interface
ApiNext == Next \/ aenter \/ aexit

ApiSpec == Init /\ [][ApiNext]_vars

----------------------------------------------------------------------------
(* Properties. *)

Messages == {MsgA, MsgB, MsgOther, MsgBad}

PeerEvents == {"peer_send", "peer_close", "peer_reset"}

\* steps that are not steps of update_status
EnvEvents == PeerEvents \cup {"cancel", "finalize", "release", "aenter", "aexit"}

\* s is n bytes without a preamble followed by exactly one complete message
GarbageThenMessage(s, n) ==
  /\ n < Len(s)
  /\ \A j \in 1..n : s[j] # PREAMBLE
  /\ SliceFrom(s, n) \in Messages

\* s is a non-empty proper prefix of a message
ProperPrefix(s) ==
  /\ Len(s) > 0
  /\ \E m \in Messages : Len(s) < Len(m) /\ IsPrefix(s, m)

\* what the reader finds in the buffer
InBuffer == rtr_read(buffer)

\* the step is an iteration of the drain loop: the task is in the loop and
\* the step is its own, not one of the runtime
LoopStep == pc = "drain" /\ ev' \notin EnvEvents

\* C1: with N >= 1 bytes of garbage in front of one complete valid message,
\* an iteration of the drain loop discards exactly one byte and nothing
\* else; with N = 0 it extracts the message and empties the buffer.
C1_ResyncProgress ==
  [][ LoopStep =>
        /\ \A n \in 1..Len(buffer) :
             GarbageThenMessage(buffer, n) =>
               buffer' = SliceFrom(buffer, 1) /\ status' = status /\ pc' = "drain"
        /\ GarbageThenMessage(buffer, 0) /\ ev' = "extract" => buffer' = <<>>
    ]_vars

\* C2: an extraction removes from the front of the buffer exactly the bytes
\* of the extracted message.
C2_ExactConsumption ==
  [][ pc = "drain" /\ ev' = "extract" => buffer = InBuffer.raw \o buffer' ]_vars

\* C3: while the buffer is a proper prefix of a message no step consumes a
\* byte of it or changes the snapshot, and a cycle that finds it so ends
\* without extracting; once the buffer is the whole message the loop does not
\* wait any longer and an extraction removes the whole message.
C3_PartialMessageStability ==
  [][ /\ ProperPrefix(buffer) =>
           /\ IsPrefix(buffer, buffer')
           /\ status' = status
           /\ LoopStep => ev' = "drain_break" /\ buffer' = buffer
      /\ LoopStep /\ buffer \in Messages =>
           /\ InBuffer.raw = buffer
           /\ ev' # "drain_break"
           /\ ev' = "extract" => buffer' = <<>>
    ]_vars

\* C3 witness: a cycle has ended on a partial message and left it in place
C3_Witness ==
  /\ pc = "idle"
  /\ ev = "drain_break"
  /\ ProperPrefix(buffer)
  /\ result = "status"

\* C4: extracting a message that is not a 1005 removes exactly that
\* message's bytes and leaves the snapshot alone; the snapshot changes only
\* in a step that extracts a 1005.
C4_TypeFiltering ==
  [][ /\ pc = "drain" /\ ev' = "extract" /\ identity(InBuffer.payload) # "1005" =>
           buffer = InBuffer.raw \o buffer' /\ status' = status
      /\ status' # status =>
           pc = "drain" /\ ev' = "extract" /\ identity(InBuffer.payload) = "1005"
    ]_vars

\* C5: a read failure ends the cycle disconnected with None returned, and a
\* call made while disconnected is a connection attempt: it reaches the read
\* only through a successful connect.
C5_Reconnection ==
  [][ /\ ev' = "recv_error" =>
           socket' = "None" /\ result' = "None" /\ pc' = "idle"
      /\ pc = "idle" /\ socket = "None" /\ ev' \notin EnvEvents =>
           /\ ev' \in {"connect_ok", "connect_failed"}
           /\ cycle'.attempts = 1
           /\ pc' = "recv" => ev' = "connect_ok" /\ socket' = "open"
    ]_vars

\* C5 witness: after a reset by the peer the next call has reconnected
C5_Witness ==
  /\ resets > 0
  /\ ev = "connect_ok"
  /\ socket = "open"
  /\ pc = "recv"

\* C6: when the decode of a 1005 message at the front of the buffer raises,
\* the bytes of that message are removed as one message, the snapshot is
\* unchanged and the loop goes on.
C6_DecodeIsolation ==
  [][ pc = "drain" /\ ev' = "decode_error" /\ IsPrefix(InBuffer.raw, buffer) =>
        /\ buffer = InBuffer.raw \o buffer'
        /\ status' = status
        /\ pc' = "drain"
    ]_vars

\* C7: a finished call has returned the snapshot if and only if a position
\* message was decoded in that cycle.
C7_PollResult ==
  pc = "idle" /\ result \in {"status", "None"} =>
    (result = "status" <=> cycle.decoded > 0)

\* C7 amended: a finished call has returned the snapshot if and only if its
\* read did not fail, whatever was decoded, and None if and only if the
\* connection attempt or the read failed.
C7_PollResultAmended ==
  pc = "idle" /\ result # "unset" =>
    /\ result \in {"status", "None"}
    /\ result = "status" <=> cycle.read \in {"data", "empty"}
    /\ result = "None" <=>
         \/ cycle.read = "error"
         \/ cycle.read = "none" /\ cycle.attempts = 1 /\ socket = "None"

\* C7 witness: a call read bytes, decoded no position and returned the snapshot
C7_Witness ==
  /\ pc = "idle"
  /\ result = "status"
  /\ cycle.read = "data"
  /\ cycle.decoded = 0

\* C8: no call of update_status ends by raising, and after every call the
\* polling loop can call it again.
C8_NoErrorIsFatal ==
  /\ result \in {"unset", "pending", "None", "status"}
  /\ pc = "idle" => ENABLED update_status

\* C8 witness: a call has returned after a connect failure, a decode failure
\* and a read failure have all happened
C8_Witness ==
  /\ pc = "idle"
  /\ result = "None"
  /\ ev = "recv_error"
  /\ faults > 0
  /\ resets > 0

\* sock_recv completes
RecvCompletes == recv_data \/ recv_empty \/ recv_error

\* C9: a call whose read found nothing and would block can always complete
\* it.
C9_CycleCannotStall == Waiting => ENABLED RecvCompletes

\* C10: a failed connect leaves the monitor disconnected with buffer, snapshot
\* and pending bytes untouched, no read made and None returned; every call
\* made while disconnected makes exactly one attempt, however many attempts
\* failed before; a successful connect leaves it connected.
C10_ConnectRetry ==
  [][ /\ ev' = "connect_failed" =>
           /\ socket' = "None" /\ pc' = "idle" /\ result' = "None"
           /\ buffer' = buffer /\ status' = status /\ rx' = rx
           /\ cycle'.read = "none"
      /\ ev' = "connect_ok" => socket' = "open" /\ pc' = "recv"
      /\ pc = "idle" /\ socket = "None" /\ ev' \notin EnvEvents =>
           ev' \in {"connect_ok", "connect_failed"} /\ cycle'.attempts = 1
    ]_vars

\* C10 witness: MaxFailures or more attempts in a row have failed, each one
\* made by its own call
C10_Witness ==
  /\ ev = "connect_failed"
  /\ failures = MaxFailures
  /\ socket = "None"
  /\ result = "None"

\* C11: a read that returns zero bytes ends the call as a call without new
\* data: the socket is kept, buffer and snapshot are unchanged, no socket is
\* given up, the snapshot is returned; it is the only way a read of zero
\* bytes is handled.
C11_ZeroByteRead ==
  [][ /\ ev' = "recv_empty" =>
           /\ socket = "open" /\ socket' = "open"
           /\ buffer' = buffer /\ status' = status
           /\ orphans' = orphans
           /\ result' = "status" /\ pc' = "idle"
      /\ pc = "recv" /\ link = "eof" /\ rx = <<>> /\ ev' \notin EnvEvents =>
           ev' = "recv_empty"
    ]_vars

\* C11 witness: a call has ended on a read of zero bytes, still connected
C11_Witness ==
  /\ ev = "recv_empty"
  /\ pc = "idle"
  /\ socket = "open"
  /\ result = "status"
  /\ cycle.read = "empty"

\* C12: in every state the snapshot is the default snapshot overwritten with
\* the position of the 1005 message that was decoded last, or the default
\* snapshot if none was decoded; nothing resets it.
C12_StaleValuesRetained ==
  status = IF last1005 = <<>> THEN BaseStationStatus
           ELSE process_1005(BaseStationStatus, last1005)

\* C12 witness: a position was decoded, the connection was lost, the monitor
\* has reconnected and the snapshot still holds the position
C12_Witness ==
  /\ ev = "connect_ok"
  /\ resets > 0
  /\ cycle.decoded = 0
  /\ last1005 # <<>>
  /\ status.latitude # BaseStationStatus.latitude

\* sockets of the monitor that are open: the one it holds, the one a
\* suspended or cancelled read holds after connect() replaced it, and the
\* ones it gave up without closing
OpenSockets ==
  (IF socket = "open" THEN 1 ELSE 0) + (IF reading.on = "old" THEN 1 ELSE 0) + orphans

\* C13: at most one socket of the monitor is open at any time.
C13_SingleConnection == OpenSockets <= 1

\* C14: once the polling task has been cancelled, the monitor holds no
\* socket: it was closed on the way out.  (After the cancellation no step of
\* the monitor follows, so what holds then holds for good.)
C14_ShutdownReleasesSocket == pc = "cancelled" => socket = "None"

\* C15: the reserved fields of the snapshot have their default values in
\* every state.
C15_ReservedFieldsDefault ==
  /\ status.accuracy_mm = 0
  /\ status.is_fixed_mode = FALSE
  /\ status.is_survey_in_active = FALSE
  /\ status.survey_in_duration = 0

\* C15 witness: two position messages have been decoded in one call and
\* the position fields are no longer the defaults
C15_Witness ==
  /\ cycle.decoded = 2
  /\ last1005 # <<>>
  /\ status.latitude # BaseStationStatus.latitude
  /\ status.altitude # BaseStationStatus.altitude

\* the geodetic points the positions in the stream were derived from
\* (latitude, longitude in degrees, height in metres), as <<whole, first 8
\* decimals, next 4 decimals>>; the ECEF coordinates in a message are these
\* points to the 0.0001 m the message format keeps
KnownGeodetic(x, y, z) ==
  CASE <<x, y, z>> = << <<-2700001, 8766>>, <<-4300001, 4322>>, <<3850000, 4321>> >> ->
         [ lat |-> <<37, 35706078, 3825>>,
           lon |-> <<-123, 87500378, 7524>>,
           height |-> <<1704, 55259210, 8957>> ]
    [] <<x, y, z>> = << <<0, 0>>, <<0, 0>>, <<6356752, 3142>> >> ->
         [ lat |-> <<90, 0, 0>>,
           lon |-> <<0, 0, 0>>,
           height |-> <<0, 0, 0>> ]

\* |v - k| <= tol / 10^8, compared on the first 8 decimals
Within(v, k, tol) ==
  /\ v[1] - k[1] \in -2..2
  /\ LET d == (v[1] - k[1]) * 100000000 + (v[2] - k[2])
     IN  d <= tol /\ -d <= tol

\* C16: for the position message the reader finds in the buffer,
\* ecef_to_geodetic gives the latitude and the longitude of the point the
\* position was derived from within 1e-6 degrees and its height within
\* 1e-2 m.
C16_RoundTripPrecision ==
  \A r \in {InBuffer} :
    r.found /\ identity(r.payload) = "1005" /\ ~decode_raises(r.payload) =>
      \A x \in {DF025(r.payload)}, y \in {DF026(r.payload)}, z \in {DF027(r.payload)} :
        LET g == ecef_to_geodetic(x, y, z)
            k == KnownGeodetic(x, y, z)
        IN  /\ Within(g.lat, k.lat, 100)
            /\ Within(g.lon, k.lon, 100)
            /\ Within(g.height, k.height, 1000000)

\* a 1005 payload whose position is on the polar axis: x = y = 0
OnPolarAxis(payload) ==
  /\ Len(payload) * 8 >= BITS_1005
  /\ DF025(payload) = <<0, 0>>
  /\ DF026(payload) = <<0, 0>>

\* C17: for a position on the polar axis ecef_to_geodetic gives longitude 0
\* exactly, and the iteration of the drain loop that reads such a message is
\* an ordinary position update: no parse-error step, the snapshot gets
\* longitude 0 and the message counts as decoded.
C17_PoleDegenerate ==
  [][ \A r \in {InBuffer} :
        LoopStep /\ r.found /\ identity(r.payload) = "1005"
          /\ OnPolarAxis(r.payload) =>
            /\ ecef_to_geodetic(DF025(r.payload), DF026(r.payload),
                                DF027(r.payload)).lon = <<0, 0, 0, 0>>
            /\ ev' = "extract"
            /\ status'.longitude = <<0, 0>>
            /\ last1005' = r.payload
            /\ cycle'.decoded = cycle.decoded + 1
    ]_vars

\* C17 witness: the position decoded last is on the polar axis and the
\* snapshot holds latitude 90, longitude 0
C17_Witness ==
  /\ last1005 # <<>>
  /\ OnPolarAxis(last1005)
  /\ ev = "extract"
  /\ status.latitude = <<90, 0>>
  /\ status.longitude = <<0, 0>>

\* C18: every iteration of the drain loop either ends the loop or leaves the
\* buffer strictly shorter, and no call stays in the loop for ever.
C18_DrainTerminates ==
  /\ [][ LoopStep => pc' = "idle" \/ Len(buffer') < Len(buffer) ]_vars
  /\ []<>(pc # "drain")

\* C18 witness: a call has left the loop after a decode failure, an
\* extraction and a final incomplete read
C18_Witness ==
  /\ pc = "idle"
  /\ ev = "drain_break"
  /\ cycle.read = "data"
  /\ cycle.decoded > 0
  /\ faults > 0
  /\ Len(buffer) > 0

\* a complete message whose checksum holds lies at position i of s
ValidFrameAt(s, i) ==
  /\ s[i] = PREAMBLE
  /\ i + 2 <= Len(s)
  /\ \E size \in {(s[i + 1] % 4) * 256 + s[i + 2]} :
       /\ size > 0
       /\ i + 2 + size + 3 <= Len(s)
       /\ calc_crc24q(SubSeq(s, i, i + 2 + size + 3)) = 0

\* the first preamble of s starts a message that is not yet complete: a
\* framer has to wait for the rest of it
FirstFrameIncomplete(s) ==
  \E p \in 1..Len(s) :
    /\ s[p] = PREAMBLE
    /\ \A k \in 1..(p - 1) : s[k] # PREAMBLE
    /\ \/ p + 2 > Len(s)
       \/ p + 2 + (s[p + 1] % 4) * 256 + s[p + 2] + 3 > Len(s)

\* C19: when a call that read bytes has returned, the buffer does not start
\* with a complete valid message, and no complete valid message is left
\* anywhere in it unless the loop had to stop at an incomplete message in
\* front of it: every message the buffer held was extracted in that call.
C19_FullDrain ==
  pc = "idle" /\ cycle.read = "data" /\ result = "status" =>
    /\ buffer # <<>> => ~ValidFrameAt(buffer, 1)
    /\ (\E i \in 1..Len(buffer) : ValidFrameAt(buffer, i)) =>
         FirstFrameIncomplete(buffer)

\* parsing at the front of s meets a structural error: the first byte is not
\* the preamble, or the complete message at the front fails its checksum
FramingErrorAtFront(s) ==
  /\ Len(s) > 0
  /\ \/ s[1] # PREAMBLE
     \/ /\ Len(s) >= 3
        /\ \E size \in {(s[2] % 4) * 256 + s[3]} :
             /\ size > 0
             /\ 3 + size + 3 <= Len(s)
             /\ calc_crc24q(SubSeq(s, 1, 3 + size + 3)) # 0

\* C20: an iteration of the drain loop that finds a structural error at the
\* front of the buffer removes exactly the first byte, leaves snapshot and
\* socket alone, returns nothing to the caller and stays in the loop.
C20_FramingErrorStep ==
  [][ LoopStep /\ FramingErrorAtFront(buffer) =>
        /\ buffer' = SliceFrom(buffer, 1)
        /\ status' = status
        /\ socket' = socket
        /\ result' = result
        /\ pc' = "drain"
    ]_vars

IsSuffix(t, s) == Len(t) <= Len(s) /\ SliceFrom(s, Len(s) - Len(t)) = t

\* C21: the buffer is always a suffix of the bytes read so far, and every
\* step takes some bytes from the front of the buffer and puts exactly the
\* bytes it read behind the rest.
C21_BufferIsSuffixOfStream ==
  /\ [](IsSuffix(buffer, stream))
  /\ [][ /\ IsPrefix(stream, stream')
         /\ \E k \in 0..Len(buffer) :
              buffer' = SliceFrom(buffer, k) \o SliceFrom(stream', Len(stream))
      ]_vars

\* C21 witness: bytes were read in two cycles, some were taken off the front
\* in between, and the buffer is what is left of the stream
C21_Witness ==
  /\ ev = "recv_data"
  /\ handed # <<>>
  /\ Len(buffer) > 0
  /\ Len(buffer) < Len(stream)
  /\ buffer # SliceTo(stream, Len(buffer))

\* C22: no message of the stream reaches the position decoder twice: the
\* places in the stream where the messages handed to it began are all
\* different.
C22_AtMostOnceDecoding ==
  \A i, j \in 1..Len(handed) : i # j => handed[i] # handed[j]

\* C23: a read that fails and a connect that fails leave the buffer and the
\* snapshot as they were and leave the monitor without a socket; the connect
\* that follows leaves them too, and the bytes read on the new connection go
\* behind what the buffer held.
C23_DisconnectPreservesBuffer ==
  [][ /\ ev' \in {"recv_error", "connect_failed"} =>
           /\ buffer' = buffer
           /\ status' = status
           /\ stream' = stream
           /\ socket' = "None"
      /\ ev' = "connect_ok" =>
           /\ buffer' = buffer
           /\ status' = status
           /\ stream' = stream
      /\ ev' = "recv_data" /\ cycle.attempts = 1 =>
           /\ buffer' = buffer \o SliceFrom(stream', Len(stream))
           /\ status' = status
    ]_vars

\* C23 witness: a message was read on a first connection and one byte of it
\* removed; the connection was lost; the call that connected again has read a
\* chunk, which stands behind the seven bytes left from the first connection
C23_Witness ==
  /\ ev = "recv_data"
  /\ cycle.attempts = 1
  /\ resets > 0
  /\ \E c \in Chunks :
       /\ stream = MsgBad \o c
       /\ buffer = SliceFrom(MsgBad, 1) \o c

\* the three fields of a snapshot that a position message sets
Position(st) == <<st.latitude, st.longitude, st.altitude>>

\* the payload of the message that begins at byte p of the stream
PayloadAt(p) ==
  SubSeq(stream, p + 3, p + 2 + (stream[p + 1] % 4) * 256 + stream[p + 2])

\* the three fields as lines 93-100 compute them from one message
PositionOf(payload) ==
  CHOOSE t \in
    { <<round8(g.lat), round8(g.lon), round2(g.height)>> :
      g \in {ecef_to_geodetic(DF025(payload), DF026(payload), DF027(payload))} } : TRUE

\* C24: whenever the task is not inside the drain loop, the latitude, the
\* longitude and the altitude of the snapshot are those of one and the same
\* position message of the stream that was decoded, or all three are still
\* the initial ones and no message was decoded.
C24_SnapshotConsistency ==
  pc # "drain" =>
    \/ /\ Position(status) = Position(BaseStationStatus)
       /\ last1005 = <<>>
    \/ \E i \in 1..Len(handed) : \E payload \in {PayloadAt(handed[i])} :
         /\ ~decode_raises(payload)
         /\ Position(status) = PositionOf(payload)

\* C24 witness: a call decoded two different position messages one after the
\* other and has returned; the snapshot differs from the initial one
C24_Witness ==
  /\ pc = "idle"
  /\ result = "status"
  /\ Len(handed) = 2
  /\ handed[1] # handed[2]
  /\ PayloadAt(handed[1]) # PayloadAt(handed[2])
  /\ ~decode_raises(PayloadAt(handed[1]))
  /\ ~decode_raises(PayloadAt(handed[2]))
  /\ Position(status) # Position(BaseStationStatus)

====
